---- MODULE Spec2Model ----
(***************************************************************************)
(* The project ledger of src/main.py (API Suivi de Chantier): the four     *)
(* tables Project, Task, TimeLog and Cost, the attachment directory, and   *)
(* the request handlers that create, list, delete and aggregate them.      *)
(*                                                                         *)
(* Each handler is one action: it runs on its own Session (get_session,    *)
(* lines 96-98), which makes its queued inserts and deletes durable only   *)
(* at session.commit() and drops them when the handler leaves by an        *)
(* exception or the process dies.  os.remove and open(..,"wb") act on the  *)
(* attachment directory at once, outside that transaction.  The faults a   *)
(* handler can meet (os.remove refused, the process dying between two      *)
(* statements) are inputs of its action.                                   *)
(*                                                                         *)
(* The store is the one create_engine(DB_URL) opens with no further        *)
(* set-up: the foreign keys the models declare are not enforced by it (no  *)
(* PRAGMA foreign_keys is issued), and a fresh primary key is any integer  *)
(* above the keys the table holds.  The API key check (require_key) and    *)
(* the demo /seed route are outside the ledger and are not modelled.       *)
(* Hours, amounts and budgets are floats in the code and small integers    *)
(* here.                                                                   *)
(***************************************************************************)
EXTENDS Integers, Sequences, FiniteSets, TLC

VARIABLES
    projects,   \* the Project table: rows [id, budget_hours, budget_cost]
    tasks,      \* the Task table: rows [id, project_id]
    timelogs,   \* the TimeLog table: rows [id, project_id, task_id, hours]
    costs,      \* the Cost table: rows [id, project_id, task_id, amount,
                \* attachment_filename]
    files,      \* the attachment directory: file name -> content
    clock,      \* int(datetime.utcnow().timestamp())
    resp,       \* the answer to the last request
    removed,    \* history: the rows and files the last request removed
    pending     \* requests between their existence checks and their insert

vars ==
    <<projects, tasks, timelogs, costs, files, clock, resp, removed, pending>>

rows == <<projects, tasks, timelogs, costs>>

\* ------------------------------------------------------------------ bounds
\* Largest primary key the Project table and the Task table hand out.
MaxProjectId == 2
MaxTaskId == 1
\* TimeLog rows, Cost rows and orphan files the ledger holds at once, and the
\* largest primary key of the TimeLog table and of the Cost table.
MaxEntries == 2
\* Last second of the clock.
MaxClock == 1
\* Requests held at once between their existence checks and their insert.
MaxPending == 1

\* ------------------------------------------------------------------ inputs
BudgetHoursVals == {2}
BudgetCostVals == {5}
HoursVals == {-1, 3}
AmountVals == {4}
ProjectIds == 1..MaxProjectId
TaskIds == 1..MaxTaskId

\* Python None / SQL NULL in an Optional[str] column.
None == "None"

PDF == "application/pdf"
ContentTypes == {PDF, "image/png"}
UploadContents == {"A", "B"}

\* Mutation of AttachmentName: the timestamp is left out of the name.
AttachmentNameNoSecond(project_id, task_id, ts) ==
    "cost_" \o ToString(project_id) \o "_" \o ToString(task_id) \o ".pdf"

\* cost_<proj>_<task>_<timestamp>.pdf
AttachmentName(project_id, task_id, ts) ==
    "cost_" \o ToString(project_id) \o "_" \o ToString(task_id) \o "_"
        \o ToString(ts) \o ".pdf"

\* attachment_filename values a CostCreate payload may carry.
PayloadFilenames == {None, AttachmentName(1, 1, 0)}

\* file: Optional[UploadFile] = File(None)
NoFile == [content_type |-> None, content |-> None]
Uploads == {NoFile} \cup [content_type : ContentTypes, content : UploadContents]

\* ------------------------------------------------------------------ store
\* session.get(Model, id)
Get(table, id) == {r \in table : r.id = id}

Exists(table, id) == Get(table, id) # {}

\* select(Model).where(Model.project_id == project_id)
WhereProject(table, project_id) == {r \in table : r.project_id = project_id}

RECURSIVE ById(_)
\* .all(): the selected rows as a list, in primary key order.
ById(S) ==
    IF S = {} THEN <<>>
    ELSE LET r == CHOOSE x \in S : \A y \in S : x.id <= y.id
         IN <<r>> \o ById(S \ {r})

\* The primary keys the store may give a new row of the table.
FreshIds(table, max) == {i \in 1..max : \A r \in table : i > r.id}

\* Files of the attachment directory no Cost row names.
Orphans == {n \in DOMAIN files : \A c \in costs : c.attachment_filename # n}

\* Room within the bound for one more TimeLog row, Cost row or orphan file.
EntryRoom ==
    Cardinality(timelogs) + Cardinality(costs) + Cardinality(Orphans)
        < MaxEntries

\* ------------------------------------------------------------------ responses
NoBody == <<>>

\* What the caller is told: the handler, the status code, the detail of an
\* HTTPException and the body of a 200.
Response(op, status, detail, body) ==
    [op |-> op, status |-> status, detail |-> detail, body |-> body]

\* The handler did not return: the process died inside it.
Died(op) == Response(op, 0, "process died", NoBody)

NothingRemoved ==
    [projects |-> {}, tasks |-> {}, timelogs |-> {}, costs |-> {}, files |-> {}]

Init ==
    /\ projects = {}
    /\ tasks = {}
    /\ timelogs = {}
    /\ costs = {}
    /\ files = <<>>
    /\ clock = 0
    /\ resp = Response("none", 0, "", NoBody)
    /\ removed = NothingRemoved
    /\ pending = {}

\* What a step took out of the tables and of the attachment directory.
Removed ==
    [projects |-> projects \ projects', tasks |-> tasks \ tasks',
     timelogs |-> timelogs \ timelogs', costs |-> costs \ costs',
     files |-> DOMAIN files \ DOMAIN files']

\* datetime.utcnow() moves on.
Tick ==
    /\ clock < MaxClock
    /\ clock' = clock + 1
    /\ UNCHANGED <<projects, tasks, timelogs, costs, files, resp, removed>>
    /\ UNCHANGED pending

\* ------------------------------------------------------------------ attachments
\* open(dest, "wb") and copyfileobj: the file of that name now holds content.
WriteFile(f, name, content) ==
    [n \in DOMAIN f \cup {name} |-> IF n = name THEN content ELSE f[n]]

\* os.remove(path) on a file that is there and may be removed.
RemoveFile(f, name) == [n \in DOMAIN f \ {name} |-> f[n]]

\* Mutation of RemoveAttachments: the loop forgets os.remove.
KeepAttachments(cs, f, denied) == [files |-> f, error |-> None]

RECURSIVE RemoveAttachmentsStrict(_, _, _)
\* Mutation of RemoveAttachments: FileNotFoundError is not caught, a missing
\* file leaves the loop like any other refusal.
RemoveAttachmentsStrict(cs, f, denied) ==
    IF cs = <<>> THEN [files |-> f, error |-> None]
    ELSE LET name == Head(cs).attachment_filename
         IN IF name = None THEN RemoveAttachmentsStrict(Tail(cs), f, denied)
            ELSE IF name \notin DOMAIN f
                 THEN [files |-> f, error |-> "FileNotFoundError"]
            ELSE IF name \in denied
                 THEN [files |-> f, error |-> "PermissionError"]
            ELSE RemoveAttachmentsStrict(Tail(cs), RemoveFile(f, name), denied)

RECURSIVE RemoveAttachments(_, _, _)
\* The loop over a project's costs: each recorded attachment is removed, a
\* missing file is passed over, and any other refusal of os.remove (denied:
\* the names it raises PermissionError for) leaves the loop by that exception.
RemoveAttachments(cs, f, denied) ==
    IF cs = <<>> THEN [files |-> f, error |-> None]
    ELSE LET name == Head(cs).attachment_filename
         IN IF name = None THEN RemoveAttachments(Tail(cs), f, denied)
            ELSE IF name \notin DOMAIN f
                 THEN RemoveAttachments(Tail(cs), f, denied)
            ELSE IF name \in denied
                 THEN [files |-> f, error |-> "PermissionError"]
            ELSE RemoveAttachments(Tail(cs), RemoveFile(f, name), denied)

\* ------------------------------------------------------------------ projects
CreateProject(budget_hours, budget_cost) ==
    \E id \in FreshIds(projects, MaxProjectId) :
        LET project == [id |-> id, budget_hours |-> budget_hours,
                        budget_cost |-> budget_cost]
        IN /\ projects' = projects \cup {project}
           /\ resp' = Response("create_project", 200, "", project)
           /\ UNCHANGED <<tasks, timelogs, costs, files, clock>>
           /\ removed' = Removed
           /\ UNCHANGED pending

ListProjects ==
    /\ resp' = Response("list_projects", 200, "", ById(projects))
    /\ UNCHANGED <<projects, tasks, timelogs, costs, files, clock>>
    /\ removed' = Removed
    /\ UNCHANGED pending

\* Mutation of Rollback: the time log deletions, flushed before the cost loop
\* starts, stay in the store when the handler leaves without a commit.
RollbackAfterFlush(project_id) ==
    [projects |-> projects, tasks |-> tasks,
     timelogs |-> timelogs \ WhereProject(timelogs, project_id),
     costs |-> costs]

\* Mutation of Rollback: the cost deletions are committed as they are queued,
\* and stay when the handler leaves before its commit.
RollbackLosesCosts(project_id) ==
    [projects |-> projects, tasks |-> tasks, timelogs |-> timelogs,
     costs |-> costs \ WhereProject(costs, project_id)]

\* The tables when the session of delete_project(project_id) is closed with
\* no commit: the deletions it queued are dropped.
Rollback(project_id) ==
    [projects |-> projects, tasks |-> tasks, timelogs |-> timelogs,
     costs |-> costs]

\* Mutation of Cascade: the loop over the project's tasks is forgotten.
CascadeKeepsTasks(project_id) ==
    [projects |-> projects \ Get(projects, project_id),
     tasks |-> tasks,
     timelogs |-> timelogs \ WhereProject(timelogs, project_id),
     costs |-> costs \ WhereProject(costs, project_id)]

\* The tables once the deletions queued for the project are committed.
Cascade(project_id) ==
    [projects |-> projects \ Get(projects, project_id),
     tasks |-> tasks \ WhereProject(tasks, project_id),
     timelogs |-> timelogs \ WhereProject(timelogs, project_id),
     costs |-> costs \ WhereProject(costs, project_id)]

\* Mutation of DeleteProject: the project is not looked up before the cascade.
DeleteProjectUnchecked(project_id, denied) ==
    LET cs == ById(WhereProject(costs, project_id))
        rm == RemoveAttachments(cs, files, denied)
        db == IF rm.error = None THEN Cascade(project_id) ELSE Rollback(project_id)
    IN /\ files' = rm.files
       /\ projects' = db.projects
       /\ tasks' = db.tasks
       /\ timelogs' = db.timelogs
       /\ costs' = db.costs
       /\ resp' = IF rm.error = None
                  THEN Response("delete_project", 204, "", NoBody)
                  ELSE Response("delete_project", 500, rm.error, NoBody)
       /\ UNCHANGED clock
       /\ removed' = Removed
       /\ UNCHANGED pending

DeleteProject(project_id, denied) ==
    IF ~Exists(projects, project_id)
    THEN /\ resp' = Response("delete_project", 404, "Project not found",
                             NoBody)
         /\ UNCHANGED <<projects, tasks, timelogs, costs, files, clock>>
         /\ removed' = Removed
         /\ UNCHANGED pending
    ELSE LET cs == ById(WhereProject(costs, project_id))
             rm == RemoveAttachments(cs, files, denied)
             db == IF rm.error = None THEN Cascade(project_id) ELSE Rollback(project_id)
         IN /\ files' = rm.files
            /\ projects' = db.projects
            /\ tasks' = db.tasks
            /\ timelogs' = db.timelogs
            /\ costs' = db.costs
            /\ resp' = IF rm.error = None
                       THEN Response("delete_project", 204, "", NoBody)
                       ELSE Response("delete_project", 500, rm.error, NoBody)
            /\ UNCHANGED clock
            /\ removed' = Removed
            /\ UNCHANGED pending

\* The process dies inside delete_project after n turns of the cost loop, none
\* of which os.remove refused: nothing was committed, and the files removed so
\* far stay removed.
DeleteProjectCrash(project_id, n) ==
    /\ Exists(projects, project_id)
    /\ n <= Len(ById(WhereProject(costs, project_id)))
    /\ files' = RemoveAttachments(
                    SubSeq(ById(WhereProject(costs, project_id)), 1, n),
                    files, {}).files
    /\ projects' = Rollback(project_id).projects
    /\ tasks' = Rollback(project_id).tasks
    /\ timelogs' = Rollback(project_id).timelogs
    /\ costs' = Rollback(project_id).costs
    /\ resp' = Died("delete_project")
    /\ UNCHANGED clock
    /\ removed' = Removed
    /\ UNCHANGED pending

\* ------------------------------------------------------------------ tasks
\* Mutation of ProjectNotFound: the project is not looked up.
ProjectNotChecked(project_id) == None

\* if not session.get(Project, payload.project_id): raise HTTPException(404, ..)
ProjectNotFound(project_id) ==
    IF ~Exists(projects, project_id) THEN "Related project not found" ELSE None

CreateTask(project_id) ==
    IF ProjectNotFound(project_id) # None
    THEN /\ resp' = Response("create_task", 404, ProjectNotFound(project_id),
                             NoBody)
         /\ UNCHANGED <<projects, tasks, timelogs, costs, files, clock>>
         /\ removed' = Removed
         /\ UNCHANGED pending
    ELSE \E id \in FreshIds(tasks, MaxTaskId) :
            LET task == [id |-> id, project_id |-> project_id]
            IN /\ tasks' = tasks \cup {task}
               /\ resp' = Response("create_task", 200, "", task)
               /\ UNCHANGED <<projects, timelogs, costs, files, clock>>
               /\ removed' = Removed
               /\ UNCHANGED pending

\* What GET /projects/{project_id}/tasks answers in the present state.
TasksOf(project_id) == ById(WhereProject(tasks, project_id))

ListTasks(project_id) ==
    /\ resp' = Response("list_tasks", 200, "", TasksOf(project_id))
    /\ UNCHANGED <<projects, tasks, timelogs, costs, files, clock>>
    /\ removed' = Removed
    /\ UNCHANGED pending

\* ------------------------------------------------------------------ time logs
\* Mutation of RelatedNotFound: the task is looked up before the project.
TaskCheckedFirst(project_id, task_id) ==
    IF ~Exists(tasks, task_id) THEN "Related task not found"
    ELSE IF ~Exists(projects, project_id) THEN "Related project not found"
    ELSE None

\* Mutation of RelatedNotFound: a task of another project counts as not found.
TaskMustBelong(project_id, task_id) ==
    IF ~Exists(projects, project_id) THEN "Related project not found"
    ELSE IF \A task \in Get(tasks, task_id) : task.project_id # project_id
    THEN "Related task not found"
    ELSE None

\* The two checks create_time_log, create_cost and create_cost_with_file each
\* open with: the project, then the task.
RelatedNotFound(project_id, task_id) ==
    IF ~Exists(projects, project_id) THEN "Related project not found"
    ELSE IF ~Exists(tasks, task_id) THEN "Related task not found"
    ELSE None

CreateTimeLog(project_id, task_id, hours) ==
    IF RelatedNotFound(project_id, task_id) # None
    THEN /\ resp' = Response("create_time_log", 404,
                             RelatedNotFound(project_id, task_id), NoBody)
         /\ UNCHANGED <<projects, tasks, timelogs, costs, files, clock>>
         /\ removed' = Removed
         /\ UNCHANGED pending
    ELSE \E id \in FreshIds(timelogs, MaxEntries) :
            LET tl == [id |-> id, project_id |-> project_id,
                       task_id |-> task_id, hours |-> hours]
            IN /\ EntryRoom
               /\ timelogs' = timelogs \cup {tl}
               /\ resp' = Response("create_time_log", 200, "", tl)
               /\ UNCHANGED <<projects, tasks, costs, files, clock>>
               /\ removed' = Removed
               /\ UNCHANGED pending

\* What GET /projects/{project_id}/timelogs answers in the present state.
TimeLogsOf(project_id) == ById(WhereProject(timelogs, project_id))

ListTimeLogs(project_id) ==
    /\ resp' = Response("list_time_logs", 200, "", TimeLogsOf(project_id))
    /\ UNCHANGED <<projects, tasks, timelogs, costs, files, clock>>
    /\ removed' = Removed
    /\ UNCHANGED pending

\* ------------------------------------------------------------------ costs
CreateCost(project_id, task_id, amount, attachment_filename) ==
    IF RelatedNotFound(project_id, task_id) # None
    THEN /\ resp' = Response("create_cost", 404,
                             RelatedNotFound(project_id, task_id), NoBody)
         /\ UNCHANGED <<projects, tasks, timelogs, costs, files, clock>>
         /\ removed' = Removed
         /\ UNCHANGED pending
    ELSE \E id \in FreshIds(costs, MaxEntries) :
            LET c == [id |-> id, project_id |-> project_id,
                      task_id |-> task_id, amount |-> amount,
                      attachment_filename |-> attachment_filename]
            IN /\ EntryRoom
               /\ costs' = costs \cup {c}
               /\ resp' = Response("create_cost", 200, "", c)
               /\ UNCHANGED <<projects, tasks, timelogs, files, clock>>
               /\ removed' = Removed
               /\ UNCHANGED pending

\* What GET /projects/{project_id}/costs answers in the present state.
CostsOf(project_id) == ById(WhereProject(costs, project_id))

ListCosts(project_id) ==
    /\ resp' = Response("list_costs", 200, "", CostsOf(project_id))
    /\ UNCHANGED <<projects, tasks, timelogs, costs, files, clock>>
    /\ removed' = Removed
    /\ UNCHANGED pending

\* Mutation of NotPdf: the content type is not looked at.
AnyContentType(file) == None

\* if file.content_type not in ("application/pdf",): raise HTTPException(415, ..)
NotPdf(file) ==
    IF file # NoFile /\ file.content_type \notin {PDF}
    THEN "Only PDF files are allowed" ELSE None

CreateCostWithFile(project_id, task_id, amount, file) ==
    IF RelatedNotFound(project_id, task_id) # None
    THEN /\ resp' = Response("create_cost_with_file", 404,
                             RelatedNotFound(project_id, task_id), NoBody)
         /\ UNCHANGED <<projects, tasks, timelogs, costs, files, clock>>
         /\ removed' = Removed
         /\ UNCHANGED pending
    ELSE IF NotPdf(file) # None
    THEN /\ resp' = Response("create_cost_with_file", 415, NotPdf(file),
                             NoBody)
         /\ UNCHANGED <<projects, tasks, timelogs, costs, files, clock>>
         /\ removed' = Removed
         /\ UNCHANGED pending
    ELSE \E id \in FreshIds(costs, MaxEntries) :
            LET base == AttachmentName(project_id, task_id, clock)
                c == [id |-> id, project_id |-> project_id,
                      task_id |-> task_id, amount |-> amount,
                      attachment_filename |->
                          IF file # NoFile THEN base ELSE None]
            IN /\ EntryRoom
               /\ files' = IF file # NoFile
                           THEN WriteFile(files, base, file.content)
                           ELSE files
               /\ costs' = costs \cup {c}
               /\ resp' = Response("create_cost_with_file", 200, "", c)
               /\ UNCHANGED <<projects, tasks, timelogs, clock>>
               /\ removed' = Removed
               /\ UNCHANGED pending

\* The process dies inside create_cost_with_file once the upload is written
\* and before the commit: the file is there and no row names it.
CreateCostWithFileCrash(project_id, task_id, file) ==
    /\ RelatedNotFound(project_id, task_id) = None
    /\ file # NoFile
    /\ NotPdf(file) = None
    /\ EntryRoom
    /\ files' = WriteFile(files, AttachmentName(project_id, task_id, clock),
                          file.content)
    /\ resp' = Died("create_cost_with_file")
    /\ UNCHANGED <<projects, tasks, timelogs, costs, clock>>
    /\ removed' = Removed
    /\ UNCHANGED pending

\* ------------------------------------------------------------------ KPI
SqlNull == <<>>

RECURSIVE SqlSum(_)
\* func.sum over the selected values: NULL when no row is selected.
SqlSum(values) ==
    IF values = <<>> THEN SqlNull
    ELSE LET rest == SqlSum(Tail(values))
         IN IF rest = SqlNull THEN <<Head(values)>>
            ELSE <<Head(values) + rest[1]>>

\* func.coalesce(x, default)
Coalesce(x, default) == IF x = SqlNull THEN default ELSE x[1]

\* Mutation of TotalHours: the where clause is forgotten.
TotalHoursOfAll(project_id) ==
    LET rs == ById(timelogs)
    IN Coalesce(SqlSum([i \in 1..Len(rs) |-> rs[i].hours]), 0)

\* select(coalesce(sum(TimeLog.hours), 0.0)).where(TimeLog.project_id == ..)
TotalHours(project_id) ==
    LET rs == ById(WhereProject(timelogs, project_id))
    IN Coalesce(SqlSum([i \in 1..Len(rs) |-> rs[i].hours]), 0)

\* select(coalesce(sum(Cost.amount), 0.0)).where(Cost.project_id == ..)
TotalCost(project_id) ==
    LET rs == ById(WhereProject(costs, project_id))
    IN Coalesce(SqlSum([i \in 1..Len(rs) |-> rs[i].amount]), 0)

KPIResponse(project, total_hours, total_cost) ==
    [project_id |-> project.id,
     total_hours |-> total_hours,
     total_cost |-> total_cost,
     budget_hours |-> project.budget_hours,
     budget_cost |-> project.budget_cost,
     hours_variance |-> total_hours - project.budget_hours,
     cost_variance |-> total_cost - project.budget_cost]

\* What GET /projects/{project_id}/kpi answers in the present state.
KPIResult(project_id) ==
    IF ~Exists(projects, project_id)
    THEN Response("project_kpi", 404, "Project not found", NoBody)
    ELSE LET project == CHOOSE r \in Get(projects, project_id) : TRUE
         IN Response("project_kpi", 200, "",
                     KPIResponse(project, TotalHours(project_id),
                                 TotalCost(project_id)))

ProjectKpi(project_id) ==
    /\ resp' = KPIResult(project_id)
    /\ UNCHANGED <<projects, tasks, timelogs, costs, files, clock>>
    /\ removed' = Removed
    /\ UNCHANGED pending

\* ------------------------------------------------------------------ system
\* The files the costs of the project name: the ones its deletion calls
\* os.remove on, and so the ones a refusal can come from.
Attached(project_id) ==
    {c.attachment_filename : c \in WhereProject(costs, project_id)}
        \cap DOMAIN files

Next ==
    \/ Tick
    \/ \E bh \in BudgetHoursVals, bc \in BudgetCostVals : CreateProject(bh, bc)
    \/ ListProjects
    \/ \E p \in ProjectIds : \E denied \in SUBSET Attached(p) :
          DeleteProject(p, denied)
    \/ \E p \in ProjectIds, n \in 0..MaxEntries : DeleteProjectCrash(p, n)
    \/ \E p \in ProjectIds : CreateTask(p)
    \/ \E p \in ProjectIds : ListTasks(p)
    \/ \E p \in ProjectIds, t \in TaskIds, h \in HoursVals :
          CreateTimeLog(p, t, h)
    \/ \E p \in ProjectIds : ListTimeLogs(p)
    \/ \E p \in ProjectIds, t \in TaskIds, a \in AmountVals,
          name \in PayloadFilenames : CreateCost(p, t, a, name)
    \/ \E p \in ProjectIds : ListCosts(p)
    \/ \E p \in ProjectIds, t \in TaskIds, a \in AmountVals, f \in Uploads :
          CreateCostWithFile(p, t, a, f)
    \/ \E p \in ProjectIds, t \in TaskIds, f \in Uploads :
          CreateCostWithFileCrash(p, t, f)
    \/ \E p \in ProjectIds : ProjectKpi(p)

Spec == Init /\ [][Next]_vars

\* ------------------------------------------------------------------ interleaving
\* The handlers run in the server's thread pool, each on its own Session, and
\* nothing orders one against another.  A create handler is then two steps: its
\* existence checks (session.get), and later its insert and commit; between
\* the two, other requests commit.  The second step does not look again, and
\* the store, which enforces no foreign key, takes the row.
InFlight(op, project_id, task_id, payload) ==
    [op |-> op, project_id |-> project_id, task_id |-> task_id,
     payload |-> payload]

PendingRoom == Cardinality(pending) < MaxPending

\* A request has passed its checks and waits for its insert.
Begin(request) ==
    /\ PendingRoom
    /\ pending' = pending \cup {request}
    /\ UNCHANGED <<projects, tasks, timelogs, costs, files, clock, resp, removed>>

BeginCreateTask(project_id) ==
    /\ ProjectNotFound(project_id) = None
    /\ Begin(InFlight("create_task", project_id, None, None))

FinishCreateTask(request) ==
    /\ request \in pending
    /\ request.op = "create_task"
    /\ \E id \in FreshIds(tasks, MaxTaskId) :
          LET task == [id |-> id, project_id |-> request.project_id]
          IN /\ tasks' = tasks \cup {task}
             /\ resp' = Response("create_task", 200, "", task)
    /\ pending' = pending \ {request}
    /\ UNCHANGED <<projects, timelogs, costs, files, clock>>
    /\ removed' = Removed

BeginCreateTimeLog(project_id, task_id, hours) ==
    /\ RelatedNotFound(project_id, task_id) = None
    /\ Begin(InFlight("create_time_log", project_id, task_id, hours))

FinishCreateTimeLog(request) ==
    /\ request \in pending
    /\ request.op = "create_time_log"
    /\ EntryRoom
    /\ \E id \in FreshIds(timelogs, MaxEntries) :
          LET tl == [id |-> id, project_id |-> request.project_id,
                     task_id |-> request.task_id, hours |-> request.payload]
          IN /\ timelogs' = timelogs \cup {tl}
             /\ resp' = Response("create_time_log", 200, "", tl)
    /\ pending' = pending \ {request}
    /\ UNCHANGED <<projects, tasks, costs, files, clock>>
    /\ removed' = Removed

BeginCreateCost(project_id, task_id, amount, attachment_filename) ==
    /\ RelatedNotFound(project_id, task_id) = None
    /\ Begin(InFlight("create_cost", project_id, task_id,
                      [amount |-> amount,
                       attachment_filename |-> attachment_filename]))

FinishCreateCost(request) ==
    /\ request \in pending
    /\ request.op = "create_cost"
    /\ EntryRoom
    /\ \E id \in FreshIds(costs, MaxEntries) :
          LET c == [id |-> id, project_id |-> request.project_id,
                    task_id |-> request.task_id,
                    amount |-> request.payload.amount,
                    attachment_filename |->
                        request.payload.attachment_filename]
          IN /\ costs' = costs \cup {c}
             /\ resp' = Response("create_cost", 200, "", c)
    /\ pending' = pending \ {request}
    /\ UNCHANGED <<projects, tasks, timelogs, files, clock>>
    /\ removed' = Removed

BeginCreateCostWithFile(project_id, task_id, amount, file) ==
    /\ RelatedNotFound(project_id, task_id) = None
    /\ NotPdf(file) = None
    /\ Begin(InFlight("create_cost_with_file", project_id, task_id,
                      [amount |-> amount, file |-> file]))

\* The upload is written under the name of the second it is written in, and
\* the row is inserted.
FinishCreateCostWithFile(request) ==
    /\ request \in pending
    /\ request.op = "create_cost_with_file"
    /\ EntryRoom
    /\ \E id \in FreshIds(costs, MaxEntries) :
          LET file == request.payload.file
              base == AttachmentName(request.project_id, request.task_id,
                                     clock)
              c == [id |-> id, project_id |-> request.project_id,
                    task_id |-> request.task_id,
                    amount |-> request.payload.amount,
                    attachment_filename |->
                        IF file # NoFile THEN base ELSE None]
          IN /\ files' = IF file # NoFile
                         THEN WriteFile(files, base, file.content)
                         ELSE files
             /\ costs' = costs \cup {c}
             /\ resp' = Response("create_cost_with_file", 200, "", c)
    /\ pending' = pending \ {request}
    /\ UNCHANGED <<projects, tasks, timelogs, clock>>
    /\ removed' = Removed

\* The requests that write, interleaved: projects are created and deleted
\* while creates of tasks, time logs and costs are between their two steps.
\* The read-only handlers change no row and are left out.
NextInterleaved ==
    \/ Tick
    \/ \E bh \in BudgetHoursVals, bc \in BudgetCostVals : CreateProject(bh, bc)
    \/ \E p \in ProjectIds : \E denied \in SUBSET Attached(p) :
          DeleteProject(p, denied)
    \/ \E p \in ProjectIds : BeginCreateTask(p)
    \/ \E request \in pending : FinishCreateTask(request)
    \/ \E p \in ProjectIds, t \in TaskIds, h \in HoursVals :
          BeginCreateTimeLog(p, t, h)
    \/ \E request \in pending : FinishCreateTimeLog(request)
    \/ \E p \in ProjectIds, t \in TaskIds, a \in AmountVals,
          name \in PayloadFilenames : BeginCreateCost(p, t, a, name)
    \/ \E request \in pending : FinishCreateCost(request)
    \/ \E p \in ProjectIds, t \in TaskIds, a \in AmountVals, f \in Uploads :
          BeginCreateCostWithFile(p, t, a, f)
    \/ \E request \in pending : FinishCreateCostWithFile(request)

SpecInterleaved == Init /\ [][NextInterleaved]_vars

\* ------------------------------------------------------------------ properties
\* delete_project(p) finds the project and answers 204.
DeleteSucceeds(p) ==
    /\ Exists(projects, p)
    /\ \E denied \in SUBSET Attached(p) : DeleteProject(p, denied)
    /\ resp'.status = 204

StoreUnchanged == UNCHANGED <<projects, tasks, timelogs, costs, files>>

\* The tables with project p and every row whose project_id is p taken out.
RowsWithout(p) ==
    <<{r \in projects : r.id # p}, {r \in tasks : r.project_id # p},
      {r \in timelogs : r.project_id # p}, {r \in costs : r.project_id # p}>>

NoRowOf(p) ==
    /\ \A r \in projects : r.id # p
    /\ \A r \in tasks : r.project_id # p
    /\ \A r \in timelogs : r.project_id # p
    /\ \A r \in costs : r.project_id # p

\* The last request was delete_project and it answered 204.
Deleted == resp.op = "delete_project" /\ resp.status = 204

\* C1: once delete_project(P) has answered 204 for an existing project P, no
\* Project, Task, TimeLog or Cost row with id / project_id P is left, the
\* listings of P's tasks, time logs and costs are empty, and the KPI of P
\* answers 404 "Project not found".
C1_DeleteLeavesNoRow ==
    Deleted =>
        /\ Cardinality(removed.projects) = 1
        /\ \A project \in removed.projects :
              /\ NoRowOf(project.id)
              /\ TasksOf(project.id) = <<>>
              /\ TimeLogsOf(project.id) = <<>>
              /\ CostsOf(project.id) = <<>>
              /\ KPIResult(project.id)
                    = Response("project_kpi", 404, "Project not found", NoBody)

\* A delete has just answered 204 and took a project, a task, a time log and a
\* cost with it.
C1_Witness ==
    /\ Deleted
    /\ removed.projects # {}
    /\ removed.tasks # {}
    /\ removed.timelogs # {}
    /\ removed.costs # {}

\* C2: once delete_project(P) has answered 204, no TimeLog and no Cost is left
\* whose task_id is the id of a task that belonged to P, whatever project_id
\* that row carries.
C2_NoEntryOfADeletedTask ==
    [][\A p \in ProjectIds :
          DeleteSucceeds(p) =>
              \A t \in WhereProject(tasks, p) :
                  /\ \A e \in timelogs' : e.task_id # t.id
                  /\ \A e \in costs' : e.task_id # t.id
      ]_vars

\* C3: whenever a Cost row is recorded with an attachment_filename, by
\* create_cost or by create_cost_with_file, a file of that name is in the
\* attachment directory at that moment.
C3_RecordedAttachmentExists ==
    [][\A c \in costs' \ costs :
          c.attachment_filename # None
              => c.attachment_filename \in DOMAIN files'
      ]_vars

\* C4: when os.remove refuses, for a reason other than the file missing, the
\* attachment of a cost of P during delete_project(P), the refusal is swallowed:
\* the call answers 204 and every row of P is deleted.
C4_RefusedRemovalIsSwallowed ==
    [][\A p \in ProjectIds : \A denied \in SUBSET Attached(p) :
          (Exists(projects, p) /\ DeleteProject(p, denied) /\ denied # {})
              => resp'.status = 204 /\ rows' = RowsWithout(p)
      ]_vars

\* C5: whatever way delete_project(P) ends (204, an exception, the process
\* dying at any point), it took no row out of the tables, or it took P and
\* every Task, TimeLog and Cost of P and nothing else; the latter exactly when
\* it answered 204.
C5_RowsAllOrNothing ==
    resp.op = "delete_project" =>
        IF resp.status = 204
        THEN \E project \in removed.projects :
                /\ removed.projects = {project}
                /\ NoRowOf(project.id)
                /\ \A r \in removed.tasks : r.project_id = project.id
                /\ \A r \in removed.timelogs : r.project_id = project.id
                /\ \A r \in removed.costs : r.project_id = project.id
        ELSE /\ removed.projects = {}
             /\ removed.tasks = {}
             /\ removed.timelogs = {}
             /\ removed.costs = {}

\* A delete has just failed after it removed an attachment: the file is gone,
\* and the cost that names it and the time logs are still there.
C5_Witness ==
    /\ resp.op = "delete_project"
    /\ resp.status \in {0, 500}
    /\ removed.files # {}
    /\ \E c \in costs : c.attachment_filename \in removed.files
    /\ timelogs # {}

\* C6: once delete_project(P) has answered 204, no file named by a cost of P
\* is left in the attachment directory.
C6_DeleteRemovesAttachments ==
    Deleted =>
        \A project \in removed.projects :
            \A c \in removed.costs \cup WhereProject(costs, project.id) :
                c.project_id = project.id
                    => c.attachment_filename \notin DOMAIN files

\* A delete has just answered 204 and removed an attachment with the cost that
\* named it.
C6_Witness ==
    /\ Deleted
    /\ \E c \in removed.costs : c.attachment_filename \in removed.files

\* C7: create_task with a project_id no Project has answers 404 "Related
\* project not found" and changes no row and no file.
C7_CreateTaskNeedsProject ==
    [][\A p \in ProjectIds :
          (CreateTask(p) /\ ~Exists(projects, p))
              => /\ resp' = Response("create_task", 404,
                                     "Related project not found", NoBody)
                 /\ StoreUnchanged
      ]_vars

\* create_task was just refused while the ledger holds another project.
C7_Witness ==
    /\ resp.op = "create_task"
    /\ resp.status = 404
    /\ projects # {}

\* create_time_log, create_cost or create_cost_with_file, called with p and t.
EntryRequest(p, t) ==
    \/ \E h \in HoursVals : CreateTimeLog(p, t, h)
    \/ \E a \in AmountVals, name \in PayloadFilenames : CreateCost(p, t, a, name)
    \/ \E a \in AmountVals, f \in Uploads : CreateCostWithFile(p, t, a, f)

\* C8: create_time_log, create_cost and create_cost_with_file check the project
\* before the task: with no such project they answer 404 "Related project not
\* found", also when the task is unknown too; with the project and no such
\* task they answer 404 "Related task not found"; either way no row is
\* inserted and no file is written.
C8_ProjectCheckedBeforeTask ==
    [][\A p \in ProjectIds, t \in TaskIds :
          EntryRequest(p, t) =>
              /\ ~Exists(projects, p) =>
                    /\ resp'.status = 404
                    /\ resp'.detail = "Related project not found"
                    /\ StoreUnchanged
              /\ (Exists(projects, p) /\ ~Exists(tasks, t)) =>
                    /\ resp'.status = 404
                    /\ resp'.detail = "Related task not found"
                    /\ StoreUnchanged
      ]_vars

\* A time log or cost was just refused for its project while no task exists
\* either: the project is the one reported.
C8_Witness ==
    /\ resp.op \in {"create_time_log", "create_cost", "create_cost_with_file"}
    /\ resp.detail = "Related project not found"
    /\ projects # {}
    /\ tasks = {}

\* create_cost_with_file called with an upload that is not a PDF.
NotPdfRequest(p, t) ==
    \E a \in AmountVals, f \in Uploads :
        /\ f # NoFile
        /\ f.content_type # PDF
        /\ CreateCostWithFile(p, t, a, f)

\* C9, as stated: create_cost_with_file with an upload that is not a PDF
\* answers 415 and writes no file and no row.
C9_NotPdfAnswers415 ==
    [][\A p \in ProjectIds, t \in TaskIds :
          NotPdfRequest(p, t) => resp'.status = 415 /\ StoreUnchanged
      ]_vars

\* C9, amended: create_cost_with_file with an upload that is not a PDF writes
\* no file and no row; it answers 415 when the project and the task exist,
\* and the 404 of the missing reference otherwise.
C9_NotPdfWritesNothing ==
    [][\A p \in ProjectIds, t \in TaskIds :
          NotPdfRequest(p, t) =>
              /\ StoreUnchanged
              /\ resp'.status =
                    IF Exists(projects, p) /\ Exists(tasks, t) THEN 415 ELSE 404
      ]_vars

\* An upload was just refused with 415.
C9_Witness ==
    /\ resp.op = "create_cost_with_file"
    /\ resp.status = 415
    /\ resp.detail = "Only PDF files are allowed"

\* The sum of field f over the rows of the table that carry project_id p, row
\* by row over the primary keys.
LedgerSum(table, f, p) ==
    LET S[i \in 0..MaxEntries] ==
            IF i = 0 THEN 0
            ELSE S[i - 1]
                 + (IF \E r \in table : r.id = i /\ r.project_id = p
                    THEN (CHOOSE r \in table : r.id = i /\ r.project_id = p)[f]
                    ELSE 0)
    IN S[MaxEntries]

\* C10: for an existing project P the KPI answers 200 with total_hours the sum
\* of hours over the time logs of P and total_cost the sum of amount over the
\* costs of P (0 when there is none), the budgets of P, and the variances
\* total - budget; for a project that does not exist it answers 404 "Project
\* not found".
C10_KpiTotals ==
    [][\A p \in ProjectIds :
          ProjectKpi(p) =>
              IF \E r \in projects : r.id = p
              THEN LET project == CHOOSE r \in projects : r.id = p
                       hours == LedgerSum(timelogs, "hours", p)
                       cost == LedgerSum(costs, "amount", p)
                   IN /\ resp'.status = 200
                      /\ resp'.body.project_id = p
                      /\ resp'.body.total_hours = hours
                      /\ resp'.body.total_cost = cost
                      /\ resp'.body.budget_hours = project.budget_hours
                      /\ resp'.body.budget_cost = project.budget_cost
                      /\ resp'.body.hours_variance = hours - project.budget_hours
                      /\ resp'.body.cost_variance = cost - project.budget_cost
                      /\ (WhereProject(timelogs, p) = {}
                              /\ WhereProject(costs, p) = {})
                            => /\ resp'.body.hours_variance = - project.budget_hours
                               /\ resp'.body.cost_variance = - project.budget_cost
              ELSE resp' = Response("project_kpi", 404, "Project not found",
                                    NoBody)
      ]_vars

\* The KPI was just answered for a project with two time logs, of -1 and 3
\* hours.
C10_Witness ==
    /\ resp.op = "project_kpi"
    /\ resp.status = 200
    /\ Cardinality(WhereProject(timelogs, resp.body.project_id)) = 2
    /\ resp.body.total_hours = 2

\* C11: delete_project with an id no Project has answers 404 "Project not
\* found" and leaves every Project, Task, TimeLog and Cost row and every
\* attachment file as it was.
C11_DeleteOfMissingProject ==
    [][\A p \in ProjectIds : \A denied \in SUBSET Attached(p) :
          (DeleteProject(p, denied) /\ ~Exists(projects, p))
              => /\ resp' = Response("delete_project", 404,
                                     "Project not found", NoBody)
                 /\ StoreUnchanged
      ]_vars

\* A delete was just refused with 404 while the ledger holds another project
\* with a cost and its attachment.
C11_Witness ==
    /\ resp.op = "delete_project"
    /\ resp.status = 404
    /\ \E c \in costs :
          /\ Exists(projects, c.project_id)
          /\ c.attachment_filename \in DOMAIN files
    /\ removed = NothingRemoved

\* A cost of project p names a file that is not in the attachment directory,
\* or two costs of p name the same file, so that the loop of delete_project(p)
\* meets a file that is already gone.
MeetsMissingFile(p) ==
    \/ \E c \in WhereProject(costs, p) :
          /\ c.attachment_filename # None
          /\ c.attachment_filename \notin DOMAIN files
    \/ \E c1, c2 \in WhereProject(costs, p) :
          /\ c1 # c2
          /\ c1.attachment_filename # None
          /\ c1.attachment_filename = c2.attachment_filename

\* C12: when a cost of P names a file that is already absent, or that an
\* earlier turn of the same loop removed because another cost of P names it
\* too, delete_project(P) with no other refusal from os.remove does not raise:
\* it answers 204 and deletes every row of P.
C12_MissingFileIsAbsorbed ==
    [][\A p \in ProjectIds :
          (Exists(projects, p) /\ MeetsMissingFile(p) /\ DeleteProject(p, {}))
              => /\ resp' = Response("delete_project", 204, "", NoBody)
                 /\ rows' = RowsWithout(p)
      ]_vars

\* A delete has just answered 204 and took with it two costs that named the
\* same file: the first turn removed it, the second found it gone.
C12_Witness ==
    /\ Deleted
    /\ \E c1, c2 \in removed.costs :
          /\ c1 # c2
          /\ c1.attachment_filename = c2.attachment_filename
          /\ c1.attachment_filename \in removed.files

\* C13: however delete_project ends (204, an exception of os.remove, the
\* process dying after any number of turns of the cost loop), no Cost row it
\* deleted leaves its attachment behind: the file a deleted row named is gone.
\* What may be left is the converse, a Cost row whose file is gone.
C13_NoDeletedRowLeavesItsFile ==
    resp.op = "delete_project" =>
        \A c \in removed.costs :
            c.attachment_filename # None
                => c.attachment_filename \notin DOMAIN files

\* The process has just died inside delete_project after it removed the
\* attachment of one cost and before it reached the attachment of the next:
\* both Cost rows are still there, one file is gone and the other is not.
C13_Witness ==
    /\ resp = Died("delete_project")
    /\ \E c1, c2 \in costs :
          /\ c1.project_id = c2.project_id
          /\ c1.attachment_filename \in removed.files
          /\ c2.attachment_filename \in DOMAIN files

\* C14: in every state the interleaved requests reach, every Task, TimeLog and
\* Cost row carries the project_id of a Project that exists.
C14_RowsReferToAProject ==
    /\ \A r \in tasks : Exists(projects, r.project_id)
    /\ \A r \in timelogs : Exists(projects, r.project_id)
    /\ \A r \in costs : Exists(projects, r.project_id)

\* C15: delete_project(P) leaves alone what is not P's: every other Project,
\* every Task, TimeLog and Cost with another project_id, and every attachment
\* file a Cost with another project_id names.
C15_DeleteTouchesOnlyItsProject ==
    [][\A p \in ProjectIds : \A denied \in SUBSET Attached(p) :
          DeleteProject(p, denied) =>
              /\ \A r \in projects : r.id # p => r \in projects'
              /\ \A r \in tasks : r.project_id # p => r \in tasks'
              /\ \A r \in timelogs : r.project_id # p => r \in timelogs'
              /\ \A r \in costs : r.project_id # p => r \in costs'
              /\ \A c \in costs :
                    (c.project_id # p /\ c.attachment_filename \in DOMAIN files)
                        => /\ c.attachment_filename \in DOMAIN files'
                           /\ files'[c.attachment_filename]
                                 = files[c.attachment_filename]
      ]_vars

\* Ids and seconds the names of two uploads are compared over.
NameFields == {0, 1, 2, 10, 11, 12}

\* C16: a successful create_cost_with_file(p, t) with an upload, in second
\* clock, names its file cost_<p>_<t>_<clock>.pdf; afterwards that file holds
\* this upload's content, whatever it held before, every other file is as it
\* was, and the new Cost row and every earlier row of that name (an upload for
\* the same p and t in the same second) reference that one file.  No other
\* triple of project_id, task_id and second gives the same name.
C16_SameSecondUploadOverwrites ==
    [][\A p \in ProjectIds, t \in TaskIds, a \in AmountVals, f \in Uploads :
          (f # NoFile /\ CreateCostWithFile(p, t, a, f) /\ resp'.status = 200)
              => LET name == AttachmentName(p, t, clock)
                 IN /\ resp'.body.attachment_filename = name
                    /\ resp'.body \notin costs
                    /\ costs' = costs \cup {resp'.body}
                    /\ DOMAIN files' = DOMAIN files \cup {name}
                    /\ files'[name] = f.content
                    /\ \A n \in DOMAIN files \ {name} : files'[n] = files[n]
                    /\ \A c \in costs :
                          c.attachment_filename = name
                              => /\ c \in costs'
                                 /\ files'[c.attachment_filename] = f.content
                    /\ \A p2, t2, s2 \in NameFields :
                          AttachmentName(p2, t2, s2) = name
                              => <<p2, t2, s2>> = <<p, t, clock>>
      ]_vars

\* Two uploads for project 1 and task 1 in second 1 have succeeded: two Cost
\* rows name cost_1_1_1.pdf, a name only an upload gives, and there is one
\* such file.
C16_Witness ==
    /\ resp.op = "create_cost_with_file"
    /\ resp.status = 200
    /\ resp.body.attachment_filename = AttachmentName(1, 1, 1)
    /\ \E c \in costs :
          /\ c # resp.body
          /\ c.attachment_filename = resp.body.attachment_filename
          /\ c.project_id = resp.body.project_id
          /\ c.task_id = resp.body.task_id
    /\ resp.body.attachment_filename \in DOMAIN files

\* What the listings and the KPI answer for project q.
ReportsOf(q) ==
    <<TasksOf(q), TimeLogsOf(q), CostsOf(q), KPIResult(q)>>

\* C17: whenever project_id names a Project and task_id names a Task, of that
\* project or of another, create_time_log and create_cost answer 200 and
\* insert exactly one new row, with that project_id and that task_id; the row
\* is added to the listing and to the KPI total of that project_id, and the
\* listings and the KPI of every other project, the task's own included, are
\* as they were.
C17_TaskOfAnotherProjectAccepted ==
    [][\A p \in ProjectIds, t \in TaskIds :
          (Exists(projects, p) /\ Exists(tasks, t)) =>
              /\ \A h \in HoursVals :
                    CreateTimeLog(p, t, h) =>
                        /\ resp'.status = 200
                        /\ resp'.body \notin timelogs
                        /\ timelogs' = timelogs \cup {resp'.body}
                        /\ resp'.body.project_id = p
                        /\ resp'.body.task_id = t
                        /\ UNCHANGED <<projects, tasks, costs, files>>
                        /\ TimeLogsOf(p)' = ById(WhereProject(timelogs, p)
                                                    \cup {resp'.body})
                        /\ TotalHours(p)' = TotalHours(p) + h
                        /\ \A q \in ProjectIds \ {p} :
                              ReportsOf(q)' = ReportsOf(q)
              /\ \A a \in AmountVals, name \in PayloadFilenames :
                    CreateCost(p, t, a, name) =>
                        /\ resp'.status = 200
                        /\ resp'.body \notin costs
                        /\ costs' = costs \cup {resp'.body}
                        /\ resp'.body.project_id = p
                        /\ resp'.body.task_id = t
                        /\ UNCHANGED <<projects, tasks, timelogs, files>>
                        /\ CostsOf(p)' = ById(WhereProject(costs, p)
                                                 \cup {resp'.body})
                        /\ TotalCost(p)' = TotalCost(p) + a
                        /\ \A q \in ProjectIds \ {p} :
                              ReportsOf(q)' = ReportsOf(q)
      ]_vars

\* A time log or a cost was just recorded under one project for a task of
\* another project.
C17_Witness ==
    /\ resp.op \in {"create_time_log", "create_cost"}
    /\ resp.status = 200
    /\ \E task \in tasks :
          /\ task.id = resp.body.task_id
          /\ task.project_id # resp.body.project_id
          /\ Exists(projects, task.project_id)
====
